---- MODULE Spec2Model ----
(***************************************************************************)
(* AbstractTransport (packages/core/src/transport/AbstractTransport.ts):   *)
(* the start/stop lifecycle of a transport, the set of tracked peers and   *)
(* the re-emission of the peers' connect/disconnect notifications as       *)
(* transport-level events.                                                 *)
(*                                                                         *)
(* The transport runs on a single JavaScript thread: every call and every  *)
(* notification handler runs to completion.  stop() is the one method      *)
(* that calls out to a collaborator inside a loop (peer.disconnect()), so  *)
(* it is modelled as call / one step per loop iteration / return, and no   *)
(* other operation interleaves with it.                                    *)
(***************************************************************************)
EXTENDS Naturals, Sequences, FiniteSets

\* ---------------------------------------------------------------- bounds
NumPeers == 2           \* peer instances the concrete transport creates
MaxSubs == 2            \* addPeer calls per peer instance

Peers == 1..NumPeers
\* TransportOptions as consumed by start (lines 104-113): two networks
TransportOptions ==
    {[networkName |-> "example", networkId |-> <<1, 2, 3, 4>>],
     [networkName |-> "other", networkId |-> <<5, 6, 7, 8>>]}

VARIABLES
    _started,       \* AbstractTransport._started
    _network,       \* AbstractTransport._network: <<>> (undefined) or <<context>>
    debug,          \* namespace of AbstractTransport.debug
    peers,          \* AbstractTransport.peers: a JS Set, kept in insertion order
    connected,      \* Peer.connected, per peer
    subs,           \* per peer: handlers subscribed by addPeer to onConnect/onDisconnect
    disconnecting,  \* per peer: disconnect() was requested, notification not yet delivered
    pc,             \* "idle", or "stopping" while stop() iterates over peers
    iter,           \* stop()'s Set iterator: entries of peers already passed
    requests,       \* per peer: peer.disconnect() calls made by the stop() call of lastOp
    stopSet,        \* tracked set when the stop() call of lastOp was made
    lastOp,         \* the operation the latest step belongs to
    ret,            \* what the latest call returned
    result,         \* <<context>> returned by the network accessor in the latest step
    emitted,        \* transport-level events emitted by the latest step, in order
    lastStart,      \* options of the latest start() that returned true: <<>> or <<options>>
    addedStarted,   \* per peer: addPeer was called for it while _started
    notified,       \* per peer: its handlers got a disconnect notification and no connect since
    lastEvent       \* per peer: type of the latest event emitted for it, or "none"

vars == <<_started, _network, debug, peers, connected, subs, disconnecting, pc, iter,
          requests, stopSet, lastOp, ret, result, emitted, lastStart, addedStarted,
          notified, lastEvent>>

\* ------------------------------------------------------- pure operators
transportName == "t"

\* debug('ataraxia:no-network:' + name)
InitialNamespace == <<"ataraxia", "no-network", transportName>>

\* debug('ataraxia:' + options.networkName + ':' + this.transportName)
Namespace(options) == <<"ataraxia", options.networkName, transportName>>

\* the digits of the textual encoding of ids
Digits ==
    <<"A", "B", "C", "D", "E", "F", "G", "H", "I", "J", "K", "L", "M", "N", "O", "P",
      "Q", "R", "S", "T", "U", "V", "W", "X", "Y", "Z", "a", "b", "c", "d", "e", "f",
      "g", "h", "i", "j", "k", "l", "m", "n", "o", "p", "q", "r", "s", "t", "u", "v",
      "w", "x", "y", "z", "0", "1", "2", "3", "4", "5", "6", "7", "8", "9", "+", "/">>

Digit(n) == Digits[n + 1]

\* encodeId: the stable textual form of a binary id, six bits per digit, unpadded
RECURSIVE encodeId(_)
encodeId(id) ==
    IF Len(id) = 0 THEN ""
    ELSE IF Len(id) = 1
    THEN Digit(id[1] \div 4) \o Digit((id[1] % 4) * 16)
    ELSE IF Len(id) = 2
    THEN Digit(id[1] \div 4) \o Digit((id[1] % 4) * 16 + id[2] \div 16)
         \o Digit((id[2] % 16) * 4)
    ELSE Digit(id[1] \div 4) \o Digit((id[1] % 4) * 16 + id[2] \div 16)
         \o Digit((id[2] % 16) * 4 + id[3] \div 64) \o Digit(id[3] % 64)
         \o encodeId(SubSeq(id, 4, Len(id)))

\* the WithNetwork value start binds
WithNetwork(options) ==
    [networkIdBinary |-> options.networkId,
     networkId |-> encodeId(options.networkId),
     debugNamespace |-> Namespace(options)]

Range(s) == {s[i] : i \in 1..Len(s)}

\* Set.prototype.add: appended unless present
SetAdd(s, p) == IF p \in Range(s) THEN s ELSE Append(s, p)

\* Set.prototype.delete: removed if present
SetDelete(s, p) == SelectSeq(s, LAMBDA x : x # p)

Event(type, p, st, tracked) ==
    [type |-> type, peer |-> p, started |-> st, peers |-> tracked]

\* what the latest step was: the operation, its peer (0: none) and its options
NoOptions == [networkName |-> "", networkId |-> <<>>]
Op(name, p) == [op |-> name, peer |-> p, options |-> NoOptions]

None == [p \in Peers |-> 0]

\* the latest event type per peer once the events es were emitted after le
LastEventAfter(le, es) ==
    [p \in Peers |->
        LET at == {i \in 1..Len(es) : es[i].peer = p} IN
        IF at = {} THEN le[p]
        ELSE es[CHOOSE i \in at : \A j \in at : j <= i].type]

\* ------------------------------------------------------------- start
\* start with the guard removed: rebinds on every call
startAlways(st, dbg, net, options) ==
    [started |-> TRUE, debug |-> Namespace(options),
     network |-> <<WithNetwork(options)>>, ret |-> "true"]

\* start that keeps a context once one is bound
startKeepsContext(st, dbg, net, options) ==
    IF st
    THEN [started |-> st, debug |-> dbg, network |-> net, ret |-> "false"]
    ELSE [started |-> TRUE, debug |-> Namespace(options),
          network |-> IF net = <<>> THEN <<WithNetwork(options)>> ELSE net,
          ret |-> "true"]

\* start that sets the flag and leaves the context as it was
startSetsFlagOnly(st, dbg, net, options) ==
    IF st
    THEN [started |-> st, debug |-> dbg, network |-> net, ret |-> "false"]
    ELSE [started |-> TRUE, debug |-> Namespace(options), network |-> net,
          ret |-> "true"]

\* start that binds no context on its first call
startForgetsContext(st, dbg, net, options) ==
    IF st
    THEN [started |-> st, debug |-> dbg, network |-> net, ret |-> "false"]
    ELSE [started |-> TRUE, debug |-> Namespace(options),
          network |-> IF net = <<>> THEN net ELSE <<WithNetwork(options)>>,
          ret |-> "true"]

\* the body of start(options): the fields it leaves behind and its result
startBody(st, dbg, net, options) ==
    IF st
    THEN [started |-> st, debug |-> dbg, network |-> net, ret |-> "false"]
    ELSE [started |-> TRUE, debug |-> Namespace(options),
          network |-> <<WithNetwork(options)>>, ret |-> "true"]

start(options) ==
    /\ pc = "idle"
    /\ LET r == startBody(_started, debug, _network, options) IN
        /\ _started' = r.started
        /\ debug' = r.debug
        /\ _network' = r.network
        /\ ret' = r.ret
        /\ lastStart' = IF r.ret = "true" THEN <<options>> ELSE lastStart
    /\ lastOp' = [Op("start", 0) EXCEPT !.options = options]
    /\ emitted' = <<>>
    /\ requests' = None
    /\ stopSet' = {}
    /\ result' = <<>>
    /\ lastEvent' = LastEventAfter(lastEvent, emitted')
    /\ UNCHANGED <<peers, connected, subs, disconnecting, pc, iter, addedStarted,
                   notified>>

\* ------------------------------------------------- the network accessor
\* get network(): throws while _network is undefined
network ==
    /\ pc = "idle"
    /\ ret' = IF _network = <<>> THEN "error" ELSE "context"
    /\ result' = _network
    /\ lastOp' = Op("network", 0)
    /\ emitted' = <<>>
    /\ requests' = None
    /\ stopSet' = {}
    /\ lastEvent' = LastEventAfter(lastEvent, emitted')
    /\ UNCHANGED <<_started, _network, debug, peers, connected, subs, disconnecting,
                   pc, iter, lastStart, addedStarted, notified>>

\* ------------------------------------------------------------ addPeer
\* the onConnect closure of addPeer (lines 146-152): this.peers.add(peer)
onConnect(s, p) == SetAdd(s, p)

\* a disconnect handler that empties the set
onDisconnectClears(s, p) == <<>>

\* a disconnect handler that leaves the set alone
onDisconnectKeeps(s, p) == s

\* the onDisconnect handler of addPeer (lines 156-161): this.peers.delete(peer)
onDisconnect(s, p) == SetDelete(s, p)

\* a transport whose subscriptions no longer reach the tracked set
connectHandlersDropped(s, p, k) == s

\* peers after a connect notification of p went through its k subscribed handlers
connectHandlers(s, p, k) == IF k > 0 THEN onConnect(s, p) ELSE s

\* peers after a disconnect notification of p went through its k subscribed handlers
disconnectHandlers(s, p, k) == IF k > 0 THEN onDisconnect(s, p) ELSE s

\* handlers that emit before they add the peer
connectEventsBeforeAdd(s, p, k, st) ==
    [i \in 1..k |-> Event("connect", p, st, Range(IF i = 1 THEN s ELSE onConnect(s, p)))]

\* the events the k handlers emit, each after its own mutation of the set
connectEvents(s, p, k, st) ==
    [i \in 1..k |-> Event("connect", p, st, Range(onConnect(s, p)))]

disconnectEvents(s, p, k, st) ==
    [i \in 1..k |-> Event("disconnect", p, st, Range(onDisconnect(s, p)))]

\* addPeer that never runs the connect routine itself
runsOnConnectNever(isConnected) == FALSE

\* if(peer.connected) onConnect()
runsOnConnect(isConnected) == isConnected

addPeer(p) ==
    /\ pc = "idle"
    /\ subs[p] < MaxSubs
    /\ subs' = [subs EXCEPT ![p] = @ + 1]
    /\ IF runsOnConnect(connected[p])
       THEN /\ peers' = onConnect(peers, p)
            /\ emitted' = connectEvents(peers, p, 1, _started)
       ELSE /\ peers' = peers
            /\ emitted' = <<>>
    /\ addedStarted' = [addedStarted EXCEPT ![p] = @ \/ _started]
    /\ lastOp' = Op("addPeer", p)
    /\ ret' = "void"
    /\ requests' = None
    /\ stopSet' = {}
    /\ result' = <<>>
    /\ lastEvent' = LastEventAfter(lastEvent, emitted')
    /\ UNCHANGED <<_started, _network, debug, connected, disconnecting, pc, iter,
                   lastStart, notified>>

\* ---------------------------------------------------- the peers' side
\* A peer becomes connected and notifies its onConnect subscribers.
PeerConnect(p) ==
    /\ pc = "idle"
    /\ ~connected[p]
    /\ connected' = [connected EXCEPT ![p] = TRUE]
    /\ peers' = connectHandlers(peers, p, subs[p])
    /\ emitted' = connectEvents(peers, p, subs[p], _started)
    /\ notified' = [notified EXCEPT ![p] = FALSE]
    /\ lastOp' = Op("connect", p)
    /\ ret' = "void"
    /\ requests' = None
    /\ stopSet' = {}
    /\ result' = <<>>
    /\ lastEvent' = LastEventAfter(lastEvent, emitted')
    /\ UNCHANGED <<_started, _network, debug, subs, disconnecting, pc, iter, lastStart,
                   addedStarted>>

\* A peer becomes disconnected (a connection drop, or a disconnect() request
\* completing) and notifies its onDisconnect subscribers.
PeerDisconnect(p) ==
    /\ pc = "idle"
    /\ connected[p]
    /\ connected' = [connected EXCEPT ![p] = FALSE]
    /\ disconnecting' = [disconnecting EXCEPT ![p] = FALSE]
    /\ peers' = disconnectHandlers(peers, p, subs[p])
    /\ emitted' = disconnectEvents(peers, p, subs[p], _started)
    /\ notified' = [notified EXCEPT ![p] = subs[p] > 0]
    /\ lastOp' = Op("disconnect", p)
    /\ ret' = "void"
    /\ requests' = None
    /\ stopSet' = {}
    /\ result' = <<>>
    /\ lastEvent' = LastEventAfter(lastEvent, emitted')
    /\ UNCHANGED <<_started, _network, debug, subs, pc, iter, lastStart, addedStarted>>

\* A disconnected peer delivers its disconnect notification once more, with no
\* connect notification in between.
PeerRepeatsDisconnect(p) ==
    /\ pc = "idle"
    /\ ~connected[p]
    /\ subs[p] > 0
    /\ notified[p]
    /\ peers' = disconnectHandlers(peers, p, subs[p])
    /\ emitted' = disconnectEvents(peers, p, subs[p], _started)
    /\ lastOp' = Op("disconnectAgain", p)
    /\ ret' = "void"
    /\ requests' = None
    /\ stopSet' = {}
    /\ result' = <<>>
    /\ lastEvent' = LastEventAfter(lastEvent, emitted')
    /\ UNCHANGED <<_started, _network, debug, connected, subs, disconnecting, pc, iter,
                   lastStart, addedStarted, notified>>

\* -------------------------------------------------------------- stop
\* stop with the guard removed
stopReturnsEarlyNever(st) == FALSE

\* if(! this._started) return false
stopReturnsEarly(st) == ~st

\* stop that clears the flag before it runs the loop
startedAtCleared(stage, st) == FALSE

\* stop that returns without clearing the flag
startedAtKept(stage, st) == st

\* _started as stop leaves it at each stage: the flag is cleared after the loop
\* (line 133), not at "entry"
startedAt(stage, st) == IF stage = "return" THEN FALSE ELSE st

\* an index into an array copy: not adjusted when an entry is deleted
iterAfterIndexed(it, before, after) == it + 1

\* for(const peer of this.peers.values()): where the Set iterator stands after the
\* body ran on entry it + 1 of `before` and left `after`; it counts live entries,
\* so an entry deleted at or before its position moves it back
iterAfter(it, before, after) ==
    Cardinality({i \in 1..(it + 1) : before[i] \in Range(after)})

stopCall ==
    /\ pc = "idle"
    /\ lastOp' = Op("stop", 0)
    /\ requests' = None
    /\ stopSet' = Range(peers)
    /\ emitted' = <<>>
    /\ iter' = 0
    /\ IF stopReturnsEarly(_started)
       THEN ret' = "false" /\ pc' = "idle" /\ _started' = _started
       ELSE ret' = "pending" /\ pc' = "stopping"
            /\ _started' = startedAt("entry", _started)
    /\ result' = <<>>
    /\ lastEvent' = LastEventAfter(lastEvent, emitted')
    /\ UNCHANGED <<_network, debug, peers, connected, subs, disconnecting,
                   lastStart, addedStarted, notified>>

\* one iteration of the loop: peer.disconnect() on the next entry.  A connected
\* peer either delivers its disconnect notification inside the call (sync) or
\* later, through PeerDisconnect; disconnect() on a disconnected peer does nothing.
stopStep(sync) ==
    /\ pc = "stopping"
    /\ iter < Len(peers)
    /\ LET p == peers[iter + 1] IN
        /\ requests' = [requests EXCEPT ![p] = @ + 1]
        /\ IF connected[p] /\ sync
           THEN /\ connected' = [connected EXCEPT ![p] = FALSE]
                /\ disconnecting' = [disconnecting EXCEPT ![p] = FALSE]
                /\ peers' = disconnectHandlers(peers, p, subs[p])
                /\ emitted' = disconnectEvents(peers, p, subs[p], _started)
                /\ notified' = [notified EXCEPT ![p] = subs[p] > 0]
           ELSE /\ disconnecting' = [disconnecting EXCEPT ![p] = connected[p]]
                /\ emitted' = <<>>
                /\ UNCHANGED <<connected, peers, notified>>
        /\ iter' = iterAfter(iter, peers, peers')
    /\ lastEvent' = LastEventAfter(lastEvent, emitted')
    /\ UNCHANGED <<_started, _network, debug, subs, pc, stopSet, lastOp, ret, result,
                   lastStart, addedStarted>>

\* the loop is over: this._started = false; return true
stopReturn ==
    /\ pc = "stopping"
    /\ iter >= Len(peers)
    /\ _started' = startedAt("return", _started)
    /\ ret' = "true"
    /\ pc' = "idle"
    /\ emitted' = <<>>
    /\ lastEvent' = LastEventAfter(lastEvent, emitted')
    /\ UNCHANGED <<_network, debug, peers, connected, subs, disconnecting, iter,
                   requests, stopSet, lastOp, result, lastStart, addedStarted, notified>>

stop == stopCall \/ (\E sync \in BOOLEAN : stopStep(sync)) \/ stopReturn

\* ------------------------------------------------------------- Init
Init ==
    /\ _started = FALSE
    /\ _network = <<>>
    /\ debug = InitialNamespace
    /\ peers = <<>>
    /\ connected = [p \in Peers |-> FALSE]
    /\ subs = None
    /\ disconnecting = [p \in Peers |-> FALSE]
    /\ pc = "idle"
    /\ iter = 0
    /\ requests = None
    /\ stopSet = {}
    /\ lastOp = Op("new", 0)
    /\ ret = "none"
    /\ result = <<>>
    /\ emitted = <<>>
    /\ lastStart = <<>>
    /\ addedStarted = [p \in Peers |-> FALSE]
    /\ notified = [p \in Peers |-> FALSE]
    /\ lastEvent = [p \in Peers |-> "none"]

Next ==
    \/ \E options \in TransportOptions : start(options)
    \/ stop
    \/ network
    \/ \E p \in Peers : addPeer(p)
    \/ \E p \in Peers : PeerConnect(p)
    \/ \E p \in Peers : PeerDisconnect(p)
    \/ \E p \in Peers : PeerRepeatsDisconnect(p)

Spec == Init /\ [][Next]_vars
\* ================================================================ claims
Tracked == Range(peers)

\* the events of one type for one peer among es
EventsOf(type, p, es) ==
    Cardinality({i \in 1..Len(es) : es[i].type = type /\ es[i].peer = p})

\* a step in which peer p delivers a disconnect notification for a transition
Disconnects(p) == connected[p] /\ ~connected'[p]

\* C1: a start call returns true exactly when the transport is Stopped when it is
\* called and leaves it Started; a stop call returns true exactly when the transport
\* is Started when it is called and leaves it Stopped; neither ends in an error.
C1_StartStopResults ==
    [][/\ lastOp'.op = "start" =>
            /\ ret' = (IF _started THEN "false" ELSE "true")
            /\ (ret' = "true" => _started')
       /\ lastOp'.op = "stop" /\ pc = "idle" =>
            /\ ret' = (IF _started THEN "pending" ELSE "false")
            /\ (ret' = "false" => pc' = "idle" /\ ~_started')
       /\ lastOp'.op = "stop" /\ pc = "stopping" =>
            /\ _started
            /\ ret' \in {"pending", "true"}
            /\ (ret' = "pending") = (pc' = "stopping")
            /\ (ret' = "true" => ~_started')
       /\ lastOp'.op \in {"start", "stop"} => ret' # "error"]_vars

\* C1 witness: a stop that returned true, after a start that returned true
C1_Witness ==
    /\ lastOp.op = "stop" /\ ret = "true" /\ ~_started
    /\ lastStart # <<>> /\ stopSet # {}

\* C2: start(context2) on a Started transport returns false and changes neither the
\* started flag, the bound context, the diagnostic namespace nor the tracked set,
\* and emits no event.
C2_StartWhileStartedIsNoOp ==
    [][lastOp'.op = "start" /\ _started =>
            /\ ret' = "false"
            /\ UNCHANGED <<_started, _network, debug, peers, lastStart>>
            /\ emitted' = <<>>]_vars

\* C2 witness: a refused start whose options differ from the bound ones, peers tracked
C2_Witness ==
    /\ lastOp.op = "start" /\ ret = "false" /\ _started
    /\ lastStart # <<>> /\ lastOp.options # lastStart[1]
    /\ _network[1].networkIdBinary # lastOp.options.networkId
    /\ peers # <<>>

\* C3: a stop call on a Started transport calls disconnect() exactly once on every
\* peer tracked when it was called and on no other peer, and returns true; a stop
\* call that follows it with no start in between returns false and calls none.
C3_StopDisconnectsEachTrackedPeerOnce ==
    [][/\ lastOp'.op = "stop" /\ pc = "idle" /\ _started =>
            stopSet' = Tracked /\ ret' = "pending"
       /\ lastOp'.op = "stop" /\ ret' = "pending" =>
            \A p \in Peers : requests'[p] <= (IF p \in stopSet' THEN 1 ELSE 0)
       /\ lastOp'.op = "stop" /\ ret' = "true" =>
            \A p \in Peers : requests'[p] = (IF p \in stopSet' THEN 1 ELSE 0)
       /\ lastOp.op = "stop" /\ ret = "true" /\ lastOp'.op = "stop" =>
            ret' = "false" /\ \A p \in Peers : requests'[p] = 0]_vars

\* C3 witness: a stop returned true after two tracked peers left the set while it
\* was still iterating
C3_Witness ==
    /\ lastOp.op = "stop" /\ ret = "true"
    /\ Cardinality(stopSet) >= 2 /\ peers = <<>>
    /\ \A p \in stopSet : requests[p] = 1

\* C4 (as claimed): a peer is tracked if and only if it is connected and was passed
\* to addPeer while the transport was started.
C4_TrackedIffConnectedAndAddedWhileStarted ==
    \A p \in Peers : (p \in Tracked) <=> (connected[p] /\ addedStarted[p])

\* C4 (amended): a peer is tracked if and only if it is connected and was passed to
\* addPeer, whatever the lifecycle state at that call.
C4_TrackedIffConnectedAndAdded ==
    \A p \in Peers : (p \in Tracked) <=> (connected[p] /\ subs[p] > 0)

\* C4 witness: a tracked peer that was only ever added while the transport was stopped
C4_Witness ==
    \E p \in Peers : p \in Tracked /\ connected[p] /\ subs[p] > 0 /\ ~addedStarted[p]

\* C5: addPeer of a connected peer, registered for the first time, leaves the peer
\* tracked and has emitted exactly one connect event for it, and no other event, by
\* the time it returns.
C5_AddConnectedPeerEmitsOnce ==
    [][\A p \in Peers :
        lastOp' = Op("addPeer", p) /\ connected[p] /\ subs[p] = 0 =>
            /\ p \in Tracked'
            /\ Len(emitted') = 1
            /\ emitted'[1].type = "connect" /\ emitted'[1].peer = p
            /\ p \in emitted'[1].peers]_vars

\* C5 witness: the first addPeer of a connected peer has just returned
C5_Witness ==
    /\ lastOp.op = "addPeer"
    /\ connected[lastOp.peer] /\ subs[lastOp.peer] = 1
    /\ lastOp.peer \in Tracked
    /\ EventsOf("connect", lastOp.peer, emitted) = 1

\* C6: addPeer of a disconnected peer emits nothing and does not track it; no
\* connect event for it is emitted before its own connect notification; that
\* notification makes it tracked and emits exactly one connect event for it.
C6_AddDisconnectedPeerThenConnect ==
    [][\A p \in Peers :
        /\ lastOp' = Op("addPeer", p) /\ ~connected[p] =>
                emitted' = <<>> /\ peers' = peers
        /\ ~connected[p] /\ lastOp' # Op("connect", p) =>
                EventsOf("connect", p, emitted') = 0
        /\ lastOp' = Op("connect", p) /\ subs[p] > 0 =>
                /\ p \notin Tracked /\ p \in Tracked'
                /\ Len(emitted') = 1
                /\ EventsOf("connect", p, emitted') = 1]_vars

\* C7: when a tracked peer delivers a disconnect notification it leaves the tracked
\* set, no other peer's membership changes and exactly one disconnect event for it
\* is emitted.
C7_DisconnectRemovesAndEmitsOnce ==
    [][\A p \in Peers :
        p \in Tracked /\ Disconnects(p) =>
            /\ Tracked' = Tracked \ {p}
            /\ Len(emitted') = 1
            /\ EventsOf("disconnect", p, emitted') = 1]_vars

\* C8: a second disconnect notification of a registered peer, with no connect
\* notification in between, emits no event, raises no error and leaves the tracked
\* set unchanged.
C8_RepeatedDisconnectIsSilent ==
    [][\A p \in Peers :
        lastOp' = Op("disconnectAgain", p) /\ p \notin Tracked =>
            /\ emitted' = <<>>
            /\ ret' # "error"
            /\ peers' = peers]_vars

\* C9: once a peer instance was passed to addPeer twice, each of its connect
\* transitions yields exactly one connect event (the second addPeer of an already
\* announced peer adds none), each disconnect transition exactly one disconnect
\* event, and the peer occurs at most once in the tracked set.
C9_DoubleRegistrationNoDuplicates ==
    [][\A p \in Peers :
        /\ lastOp' = Op("addPeer", p) /\ subs[p] >= 1 /\ p \in Tracked =>
                emitted' = <<>>
        /\ lastOp' = Op("connect", p) /\ subs[p] >= 2 =>
                EventsOf("connect", p, emitted') = 1
        /\ Disconnects(p) /\ subs[p] >= 2 =>
                EventsOf("disconnect", p, emitted') = 1
        /\ Cardinality({i \in 1..Len(peers') : peers'[i] = p}) <= 1]_vars

\* C10: reading the network accessor before any start fails and changes nothing;
\* once a start returned true it returns the context made of the options of the
\* latest start that returned true.
C10_NetworkAccessor ==
    [][lastOp'.op = "network" =>
        /\ UNCHANGED <<_started, _network, debug, peers, connected, subs, lastStart>>
        /\ emitted' = <<>>
        /\ lastStart = <<>> => ret' = "error" /\ result' = <<>>
        /\ lastStart # <<>> =>
            /\ ret' = "context"
            /\ Len(result') = 1
            /\ result'[1].networkIdBinary = lastStart[1].networkId
            /\ result'[1].networkId = encodeId(lastStart[1].networkId)
            /\ result'[1].debugNamespace =
                    <<"ataraxia", lastStart[1].networkName, transportName>>]_vars

\* C10 witness: the accessor returned the context of the "other" network, whose
\* namespace is in force
C10_Witness ==
    /\ lastOp.op = "network" /\ ret = "context"
    /\ result # <<>> /\ result[1].networkId = "BQYHCA"
    /\ lastStart # <<>> /\ lastStart[1].networkName = "other"
    /\ debug = <<"ataraxia", "other", transportName>>

\* C11 (as claimed): whenever the transport is Stopped the network context is
\* unbound, so the network accessor fails.
C11_UnboundWhileStopped ==
    /\ ~_started => _network = <<>>
    /\ lastOp.op = "network" /\ ~_started => ret = "error"

\* C11 (amended): the network context is unbound exactly until the first start
\* that returns true; a stop leaves it bound to the context of the latest such
\* start, and the accessor fails only while it is unbound.
C11_UnboundUntilFirstStart ==
    /\ (_network = <<>>) <=> (lastStart = <<>>)
    /\ lastStart # <<>> => _network = <<WithNetwork(lastStart[1])>>
    /\ lastOp.op = "network" => ((ret = "error") <=> (lastStart = <<>>))

\* C11 witness: the accessor returned the context while the transport was Stopped
\* after a stop
C11_Witness ==
    /\ lastOp.op = "network" /\ ret = "context" /\ ~_started
    /\ result = <<WithNetwork(lastStart[1])>>

\* ------------------------------------------------------------------------
\* A concrete transport that gates addPeer on its own started state: the runs
\* in which addPeer is only called while Started.
addPeerWhileStarted(p) == _started /\ addPeer(p)

NextGated ==
    \/ \E options \in TransportOptions : start(options)
    \/ stop
    \/ network
    \/ \E p \in Peers : addPeerWhileStarted(p)
    \/ \E p \in Peers : PeerConnect(p)
    \/ \E p \in Peers : PeerDisconnect(p)
    \/ \E p \in Peers : PeerRepeatsDisconnect(p)

SpecGated == Init /\ [][NextGated]_vars

\* the events of the latest step that were emitted while _started was false
EmittedWhileStopped == {i \in 1..Len(emitted) : ~emitted[i].started}

\* C12 (as claimed): when addPeer is only called while Started, no event is
\* emitted while the transport is Stopped.
C12_NoEventWhileStopped == EmittedWhileStopped = {}

\* C12 (amended): when addPeer is only called while Started, start, stop and
\* addPeer emit no event while the transport is Stopped; an event is emitted while
\* Stopped only when a peer that was added while Started delivers a connect or
\* disconnect notification.
C12_OnlyNotificationsEmitWhileStopped ==
    \A i \in EmittedWhileStopped :
        /\ lastOp.op \in {"connect", "disconnect", "disconnectAgain"}
        /\ lastOp.peer = emitted[i].peer
        /\ addedStarted[emitted[i].peer]

\* C12 witness: a peer added while Started delivers its disconnect notification
\* after stop has returned, and the event is emitted while Stopped
C12_Witness ==
    /\ lastOp.op = "disconnect" /\ ~_started /\ lastStart # <<>>
    /\ addedStarted[lastOp.peer]
    /\ EmittedWhileStopped # {}
    /\ emitted[1].type = "disconnect"

\* C13: start and stop neither add nor remove a tracked peer themselves: a peer
\* leaves the tracked set only in the step in which it delivers its disconnect
\* notification and enters it only in its own connect routine, so when every peer
\* requested to disconnect has yet to deliver its notification, the tracked set
\* when stop returns is the tracked set of when stop was called.
C13_OnlyNotificationsChangeTheSet ==
    [][/\ lastOp'.op = "start" => peers' = peers
       /\ \A p \in Peers :
            /\ p \in Tracked /\ p \notin Tracked' => Disconnects(p)
            /\ p \notin Tracked /\ p \in Tracked' =>
                    lastOp' \in {Op("connect", p), Op("addPeer", p)}
       /\ lastOp'.op = "stop" /\ ret' = "true"
          /\ (\A p \in stopSet' : connected'[p]) =>
                Tracked' = stopSet']_vars

\* C13 witness: stop returned true, every peer it asked to disconnect has yet to
\* deliver its notification and all of them are still tracked
C13_Witness ==
    /\ lastOp.op = "stop" /\ ret = "true" /\ ~_started
    /\ Cardinality(stopSet) >= 2
    /\ \A p \in stopSet : disconnecting[p] /\ requests[p] = 1
    /\ Tracked = stopSet

\* the events emitted for peer p among es, in order
EventsFor(p, es) == SelectSeq(es, LAMBDA e : e.peer = p)

\* C14: the events emitted for one peer strictly alternate connect, disconnect,
\* connect, ... starting with a connect, so every disconnect event is preceded by
\* the connect event of the same connection instance, and a peer that connects
\* again is in the tracked set again.
C14_EventsAlternatePerPeer ==
    [][\A p \in Peers :
        LET ep == EventsFor(p, emitted') IN
        \A i \in 1..Len(ep) :
            /\ ep[i].type # (IF i = 1 THEN lastEvent[p] ELSE ep[i - 1].type)
            /\ (i = 1 /\ lastEvent[p] = "none") => ep[i].type = "connect"
            /\ ep[i].type = "connect" => p \in Tracked']_vars

\* ------------------------------------------------------------------------
\* One lifecycle followed to its end: once a stop has returned true the concrete
\* transport neither starts again nor adds peers, and no peer connects; the loop
\* of stop runs to completion and every peer that was asked to disconnect
\* delivers its disconnect notification.
AfterStop == lastStart # <<>> /\ ~_started /\ pc = "idle"

startBeforeStop(options) == ~AfterStop /\ start(options)

addPeerBeforeStop(p) == ~AfterStop /\ addPeer(p)

PeerConnectBeforeStop(p) == ~AfterStop /\ PeerConnect(p)

\* stop() runs its loop and returns without yielding
stopRuns == (\E sync \in BOOLEAN : stopStep(sync)) \/ stopReturn

\* a disconnect() request completes
PeerCompletesDisconnect(p) == disconnecting[p] /\ PeerDisconnect(p)

NextSettle ==
    \/ \E options \in TransportOptions : startBeforeStop(options)
    \/ stop
    \/ network
    \/ \E p \in Peers : addPeerBeforeStop(p)
    \/ \E p \in Peers : PeerConnectBeforeStop(p)
    \/ \E p \in Peers : PeerDisconnect(p)
    \/ \E p \in Peers : PeerRepeatsDisconnect(p)

SpecSettle ==
    /\ Init /\ [][NextSettle]_vars
    /\ WF_vars(stopRuns)
    /\ \A p \in Peers : WF_vars(PeerCompletesDisconnect(p))

\* C15: after a stop returned true, with every requested disconnect notification
\* delivered and no connect notification afterwards, the tracked set becomes empty
\* and stays empty, and from then on no event is emitted.
C15_SettlesAfterStop ==
    /\ AfterStop ~> [](Tracked = {})
    /\ [][AfterStop /\ Tracked = {} => emitted' = <<>>]_vars

\* C16: in every state a caller, a peer callback or an event listener can observe,
\* a transport whose started flag is set has its network context bound: no state
\* with the flag set and the context unbound is observable, and no listener was
\* handed an event in such a state.
C16_StartedImpliesBound ==
    /\ _started => _network # <<>>
    /\ \A i \in 1..Len(emitted) : emitted[i].started => _network # <<>>
    /\ lastOp.op = "network" /\ _started => ret = "context"

\* C16 witness: the first start has just returned true and bound its context
C16_Witness ==
    /\ lastOp.op = "start" /\ ret = "true" /\ _started
    /\ _network = <<WithNetwork(lastOp.options)>>

\* C17: the set is changed before the event is emitted: a listener that receives a
\* connect event for p finds p in the tracked set, and one that receives a
\* disconnect event for p finds p absent from it.
C17_SetChangesBeforeEmit ==
    \A i \in 1..Len(emitted) :
        /\ emitted[i].type = "connect" => emitted[i].peer \in emitted[i].peers
        /\ emitted[i].type = "disconnect" => emitted[i].peer \notin emitted[i].peers

\* C17 witness: a disconnect event was delivered while another peer was tracked,
\* after connect events had put both in the set
C17_Witness ==
    /\ lastOp.op = "disconnect" /\ Len(emitted) = 1
    /\ emitted[1].type = "disconnect" /\ emitted[1].peer = lastOp.peer
    /\ emitted[1].peers # {} /\ emitted[1].peers = Tracked
    /\ \A p \in Tracked : lastEvent[p] = "connect"

\* C18: stop clears the started flag only after the disconnect request went to
\* every peer that was tracked when it was called: while the loop runs the flag is
\* still true, every disconnect event a peer delivers inside its disconnect() is
\* emitted with started true, and the step that clears the flag finds a request
\* issued to each of those peers.
C18_StopClearsFlagAfterRequests ==
    [][/\ pc' = "stopping" => _started'
       /\ lastOp'.op = "stop" =>
             \A i \in 1..Len(emitted') :
                 emitted'[i].type = "disconnect" /\ emitted'[i].started
       /\ _started /\ ~_started' =>
             /\ lastOp'.op = "stop" /\ ret' = "true"
             /\ \A p \in stopSet' : requests'[p] = 1]_vars

\* C18 witness: inside stop a peer delivered its disconnect notification in
\* disconnect(); the event saw started true while another peer was still to be asked
C18_Witness ==
    /\ pc = "stopping" /\ lastOp.op = "stop" /\ iter < Len(peers)
    /\ emitted # <<>> /\ emitted[1].type = "disconnect" /\ emitted[1].started
    /\ \E p \in stopSet : requests[p] = 0

\* C19: start and stop never remove a subscription made by addPeer, so a peer
\* registered once stays subscribed across stop/start cycles: whenever it later
\* delivers a connect notification, in whatever lifecycle state, it is added to
\* the tracked set and exactly one connect event is emitted for it.
C19_SubscriptionsSurviveStopStart ==
    [][/\ lastOp'.op \in {"start", "stop"} => subs' = subs
       /\ \A p \in Peers : subs'[p] >= subs[p]
       /\ \A p \in Peers :
             lastOp' = Op("connect", p) /\ subs[p] = 1 /\ ~connected[p] /\ connected'[p] =>
                 /\ p \in Range(peers') /\ Range(peers') = Range(peers) \cup {p}
                 /\ emitted' = <<Event("connect", p, _started, Range(peers'))>>]_vars

\* C19 witness: a peer registered once while started connected after the transport
\* had been stopped, and is tracked again
C19_Witness ==
    /\ lastOp.op = "connect" /\ ~_started /\ lastStart # <<>>
    /\ subs[lastOp.peer] = 1 /\ addedStarted[lastOp.peer]
    /\ lastOp.peer \in Tracked
    /\ Len(emitted) = 1 /\ emitted[1].type = "connect" /\ ~emitted[1].started

\* stop under the scheduling of a single-threaded run to completion: once called,
\* its loop and its return run without waiting for anything
SpecFair == Spec /\ WF_vars(stopRuns)

\* C20: a stop call on a started transport terminates, returning true with
\* started false, also when peers deliver their disconnect notification inside
\* disconnect() and so leave the set stop is iterating over (no peer delivers a
\* connect notification during the call).
C20_StopTerminates ==
    (pc = "stopping") ~>
        (pc = "idle" /\ lastOp.op = "stop" /\ ret = "true" /\ ~_started)

\* C20 witness: stop returned after every peer of a full tracked set had removed
\* itself from the set inside its disconnect()
C20_Witness ==
    /\ pc = "idle" /\ lastOp.op = "stop" /\ ret = "true" /\ ~_started
    /\ stopSet = Peers /\ Tracked = {}
    /\ \A p \in Peers : requests[p] = 1 /\ ~connected[p] /\ lastEvent[p] = "disconnect"
====
